---- MODULE Spec2Model ----
(***************************************************************************)
(* Heading estimation of RMC/rmc_heading.py: haversine_heading and the     *)
(* per-message loop of read_nmea_rmc.                                      *)
(*                                                                         *)
(* Python floats are modelled in fixed point:                              *)
(*   latitude / longitude   arc-minutes              (1 degree  = 60)      *)
(*   radians, sin, cos      1/Unit                   (1.0       = 10000)   *)
(*   atan2 result           micro-radians            (pi        = 3141593) *)
(*   headings in degrees    milli-degrees            (1 degree  = 1000)    *)
(*   headings in radians    micro-radians                                  *)
(*   speed over ground      deci-knots on the wire                         *)
(*   speed in m/s           1e-7 / SpeedScale m/s, so that the mean of up  *)
(*                          to 5 speeds is a whole number of units         *)
(*   time                   clock ticks of time.time()                     *)
(***************************************************************************)
EXTENDS Integers, Sequences, FiniteSets, TLC

\* Python's None, and a value that is not None
None == << >>
Some(x) == << x >>
Get(o) == o[1]

(***************************************************************************)
(* Fixed-point arithmetic standing for the float operations of `math`.     *)
(***************************************************************************)
Unit == 10000
Pi == 31416
HalfPi == 15708
TwoPi == 62832
PiMicro == 3141593
HalfPiMicro == 1570796

Abs(n) == IF n < 0 THEN -n ELSE n

\* n / d rounded to nearest, halves away from zero (d > 0)
RoundDiv(n, d) == IF n >= 0 THEN (2 * n + d) \div (2 * d)
                            ELSE -((2 * (-n) + d) \div (2 * d))

\* n / d truncated toward zero (d > 0)
TruncDiv(n, d) == IF n >= 0 THEN n \div d ELSE -((-n) \div d)

FMul(a, b) == RoundDiv(a * b, Unit)

\* math.radians on an angle in arc-minutes: a * pi / 10800
RadiansOfArcMin(a) == RoundDiv(a * 29089, 10000)

\* sin on [0, pi/2], Taylor series to the x^9 term
SinQ(x) ==
    LET x2 == FMul(x, x)
        t3 == RoundDiv(FMul(x, x2), 6)
        t5 == RoundDiv(FMul(t3, x2), 20)
        t7 == RoundDiv(FMul(t5, x2), 42)
        t9 == RoundDiv(FMul(t7, x2), 72)
    IN  x - t3 + t5 - t7 + t9

SinPos(t) == IF t <= HalfPi THEN SinQ(t) ELSE SinQ(Pi - t)

\* math.sin
Sin(r) == LET t == r % TwoPi
          IN  IF t <= Pi THEN SinPos(t) ELSE -SinPos(t - Pi)

\* math.cos
Cos(r) == Sin(r + HalfPi)

\* atan(2^-i) in micro-radians, i = 0 .. 19
AtanTable == << 785398, 463648, 244979, 124355, 62419, 31240, 15624, 7812,
                3906, 1953, 977, 488, 244, 122, 61, 31, 15, 8, 4, 2 >>

Pow2(i) == 2 ^ i

RECURSIVE Cordic(_, _, _, _)
\* vectoring CORDIC: rotates (x, y), x > 0, onto the x axis; z accumulates the angle
Cordic(x, y, z, i) ==
    IF i >= Len(AtanTable) \/ y = 0 THEN z
    ELSE IF y > 0
         THEN Cordic(x + TruncDiv(y, Pow2(i)), y - TruncDiv(x, Pow2(i)),
                     z + AtanTable[i + 1], i + 1)
         ELSE Cordic(x - TruncDiv(y, Pow2(i)), y + TruncDiv(x, Pow2(i)),
                     z - AtanTable[i + 1], i + 1)

Max(a, b) == IF a >= b THEN a ELSE b

\* math.atan2(a, b): the angle of the point (b, a), in micro-radians, in [-pi, pi]
Atan2(a, b) ==
    IF a = 0 /\ b = 0 THEN 0
    ELSE IF b = 0 THEN (IF a > 0 THEN HalfPiMicro ELSE -HalfPiMicro)
    ELSE IF a = 0 THEN (IF b > 0 THEN 0 ELSE PiMicro)
    ELSE LET k  == (2 ^ 26) \div Max(Abs(a), Abs(b))
             ax == Abs(b) * k
             ay == a * k
             q  == Cordic(ax, ay, 0, 0)
         IN  IF b > 0 THEN q
             ELSE IF a > 0 THEN PiMicro - q
             ELSE -PiMicro - q

\* math.degrees on micro-radians, giving milli-degrees: r * 180 / pi
Degrees(r) ==
    LET q     == Abs(r) * 180
        whole == q \div PiMicro
        rest  == q % PiMicro
        d     == whole * 1000 + RoundDiv(rest * 100, 314159)
    IN  IF r >= 0 THEN d ELSE -d

(***************************************************************************)
(* The float addition heading + 360.  A double has a fixed number of       *)
(* significant bits, so values of magnitude >= 256 are spaced wider than   *)
(* the small values atan2 can return: the sum is rounded to that spacing   *)
(* (round to nearest, ties to even), which is how a tiny negative heading  *)
(* added to 360 gives exactly 360.0.  Here small values are spaced 1       *)
(* milli-degree apart and values of magnitude >= Binade are spaced Ulp     *)
(* milli-degrees apart.                                                    *)
(***************************************************************************)
Binade == 256000
Ulp == 16
FullTurn == 360000

FloatRound(v) ==
    IF Abs(v) < Binade THEN v
    ELSE LET lo == (v \div Ulp) * Ulp
             r  == v - lo
         IN  IF 2 * r < Ulp THEN lo
             ELSE IF 2 * r > Ulp THEN lo + Ulp
             ELSE IF (lo \div Ulp) % 2 = 0 THEN lo ELSE lo + Ulp

\* faulty variant: heading % 360, which for a negative heading is the rounded sum
\* heading + 360 and so can be 360.0 itself
NormalizeBug(heading) == FloatRound(heading % FullTurn)

\* line 23: (heading + 360) % 360
Normalize(heading) == FloatRound(heading + FullTurn) % FullTurn

\* haversine_heading(lat1, lon1, lat2, lon2), arguments in arc-minutes,
\* result in milli-degrees
haversine_heading(lat1, lon1, lat2, lon2) ==
    LET rlat1 == RadiansOfArcMin(lat1)
        rlon1 == RadiansOfArcMin(lon1)
        rlat2 == RadiansOfArcMin(lat2)
        rlon2 == RadiansOfArcMin(lon2)
        delta_lon == rlon2 - rlon1
        x == FMul(Sin(delta_lon), Cos(rlat2))
        y == FMul(Cos(rlat1), Sin(rlat2))
             - FMul(FMul(Sin(rlat1), Cos(rlat2)), Cos(delta_lon))
        heading == Degrees(Atan2(x, y))
    IN  Normalize(heading)

\* math.radians on a heading in milli-degrees, giving micro-radians
Radians(d) == RoundDiv(d * 1745, 100)

(***************************************************************************)
(* The serial line.  A message is what ser.readline() returns:             *)
(*   kind "other"    a line that is not an RMC sentence (or the empty line *)
(*                   of a read timeout)                                    *)
(*   kind "garbled"  an RMC line pynmea2.parse rejects with ParseError     *)
(*   kind "rmc"      a parsed RMC sentence with its raw fields: lat and    *)
(*                   lon as DDMM / DDDMM numerals, spd in deci-knots,      *)
(*                   course in whole degrees; spd and course may also be   *)
(*                   the empty field "" or a non-numeric text "x"          *)
(***************************************************************************)
MaxFix == 3
MaxTime == 2
MaxRun == 7
MaxGate == 5
MaxLive == 2

\* a raw field of a sentence: a numeral, the empty field, or a non-numeric text
Num(n) == [tag |-> "num", v |-> n, d |-> 1]
Empty == [tag |-> "empty", v |-> 0, d |-> 1]
Text == [tag |-> "text", v |-> 0, d |-> 1]

\* a numeric field that is not a whole number of tenths: n / d tenths
Frac(n, d) == [tag |-> "num", v |-> n, d |-> d]

\* 0.38876923435786986 on the wire, the double nearest 50000/128611 knots:
\* float("0.38876923435786986") * 0.514444 == 0.2
GateKnots == Frac(500000, 128611)

Rmc(st, p, sp, c) ==
    [kind |-> "rmc", status |-> st, lat |-> p[1], lat_dir |-> "N",
     lon |-> p[2], lon_dir |-> "E", spd |-> sp, course |-> c]

\* Valid fixes: positions (0,0), (0,1), (0,2), (1,1) degrees; speeds 0, 0.1 and
\* 1.0 knots (0, 0.051 and 0.514 m/s); course absent, 0, 88 or 89 degrees.
ValidMessages ==
    { Rmc("A", <<0, 0>>,     Num(0),  Empty),
      Rmc("A", <<0, 0>>,     Num(10), Num(0)),
      Rmc("A", <<0, 100>>,   Num(1),  Num(88)),
      Rmc("A", <<0, 100>>,   Num(1),  Empty),
      Rmc("A", <<0, 200>>,   Num(1),  Num(89)),
      Rmc("A", <<100, 100>>, Num(10), Num(88)),
      Rmc("A", <<100, 100>>, Num(1),  Num(89)) }

\* Valid fixes of a long run: slow along the equator, or fast to the north-east
LongMessages ==
    { Rmc("A", <<0, 100>>,   Num(1),  Num(88)),
      Rmc("A", <<0, 200>>,   Num(1),  Num(89)),
      Rmc("A", <<100, 100>>, Num(10), Num(88)) }

MalformedMessages ==
    { Rmc("A", <<0, 100>>, sp, Num(88)) : sp \in {Empty, Text} }
        \cup { Rmc("A", <<0, 100>>, Num(1), Text) }

OtherMessages ==
    { [kind |-> "other"], [kind |-> "garbled"], Rmc("V", <<0, 100>>, Num(1), Num(88)) }

(***************************************************************************)
(* pynmea2's field access, as line 42 and lines 45-48 use it.              *)
(***************************************************************************)
\* a float-typed field as pynmea2 returns it: None when empty, the float when
\* numeric, else the raw text
FloatField(f) == IF f.tag = "empty" THEN [tag |-> "none", v |-> 0, d |-> 1] ELSE f

\* dm_to_sd: DDMM -> degrees + minutes / 60, here in arc-minutes
dm_to_sd(dm) == (dm \div 100) * 60 + (dm % 100)

\* msg.latitude
latitude(m) == IF m.lat_dir = "N" THEN dm_to_sd(m.lat)
               ELSE IF m.lat_dir = "S" THEN -dm_to_sd(m.lat) ELSE 0

\* msg.longitude
longitude(m) == IF m.lon_dir = "E" THEN dm_to_sd(m.lon)
                ELSE IF m.lon_dir = "W" THEN -dm_to_sd(m.lon) ELSE 0

\* Python truthiness of a field value: None and 0.0 are false, a text is true
Truthy(x) == x.tag = "text" \/ (x.tag = "num" /\ x.v # 0)

\* line 47: float(msg.true_course) if msg.true_course else None, in milli-degrees
ReportedHeading(m) ==
    LET c == FloatField(m.course)
    IN  IF Truthy(c) THEN Some(c.v * 1000) ELSE None

\* line 47 raises ValueError: float() of a non-numeric text
CourseRaises(m) ==
    LET c == FloatField(m.course) IN Truthy(c) /\ c.tag # "num"

KnotsToMs == 514444
SpeedScale == 60

\* line 48: msg.spd_over_grnd * 0.514444
SpeedMs(m) ==
    LET f == FloatField(m.spd)
    IN  f.v * ((KnotsToMs * SpeedScale) \div f.d)

\* line 48 raises TypeError: None * float, or str * float
SpeedRaises(m) == FloatField(m.spd).tag # "num"

(***************************************************************************)
(* The estimator's pieces, lines 51-86.                                    *)
(***************************************************************************)
maxlen == 5

\* faulty variant: the deque evicts one entry too late
DequeAppendLate(d, x) ==
    IF Len(d) <= maxlen THEN Append(d, x) ELSE Append(Tail(d), x)

\* deque(maxlen=5).append
DequeAppend(d, x) ==
    IF Len(d) < maxlen THEN Append(d, x) ELSE Append(Tail(d), x)

RECURSIVE Sum(_)
Sum(s) == IF s = <<>> THEN 0 ELSE Head(s) + Sum(Tail(s))

\* 0.2 m/s
Threshold == 2000000 * SpeedScale

\* the float sum 0.2 + 0.2 + 0.2 is 0.6000000000000001, one unit in the last place
\* above 0.6, and a third of it is 0.20000000000000004; every other sum of the
\* speeds used here is the nearest double of the exact sum
FloatExcess(buf) == IF buf = << Threshold, Threshold, Threshold >> THEN 1 ELSE 0

\* line 53: sum(speed_buffer) / len(speed_buffer)
AvgSpeed(buf) == Sum(buf) \div Len(buf) + FloatExcess(buf)

\* faulty variant: the difference keeps its sign
SpeedDiffSigned(speed_m_s, last) ==
    IF last # None THEN speed_m_s - Get(last) ELSE 0

\* line 56
SpeedDiff(speed_m_s, last) ==
    IF last # None THEN Abs(speed_m_s - Get(last)) ELSE 0

\* faulty variant: the gates open at 0.2 m/s already
GateOpenInclusive(speed_diff, avg_speed) ==
    speed_diff >= Threshold \/ avg_speed >= Threshold

\* faulty variant: both gates at 0.02 m/s
GateOpenLow(speed_diff, avg_speed) ==
    speed_diff > Threshold \div 10 \/ avg_speed > Threshold \div 10

\* line 67: speed_diff > 0.2 or avg_speed > 0.2
GateOpen(speed_diff, avg_speed) ==
    speed_diff > Threshold \/ avg_speed > Threshold

\* lines 69-70
AvgLat(fixes) == Sum([i \in 1..Len(fixes) |-> fixes[i][1]]) \div Len(fixes)
AvgLon(fixes) == Sum([i \in 1..Len(fixes) |-> fixes[i][2]]) \div Len(fixes)

\* faulty variant: the first heading waits for the motion gate too
BranchGated(plat, plon, first_calc, speed_diff, avg_speed) ==
    IF ~(plat # None /\ plon # None) THEN "first"
    ELSE IF ~GateOpen(speed_diff, avg_speed) THEN "hold"
    ELSE IF ~first_calc THEN "bootstrap"
    ELSE "recompute"

\* faulty variant: first_heading_calculated is not consulted while the gate is shut
BranchBootstrapAgain(plat, plon, first_calc, speed_diff, avg_speed) ==
    IF ~(plat # None /\ plon # None) THEN "first"
    ELSE IF ~first_calc \/ ~GateOpen(speed_diff, avg_speed) THEN "bootstrap"
    ELSE "recompute"

\* lines 61-74: which branch a fix takes
Branch(plat, plon, first_calc, speed_diff, avg_speed) ==
    IF ~(plat # None /\ plon # None) THEN "first"
    ELSE IF ~first_calc THEN "bootstrap"
    ELSE IF GateOpen(speed_diff, avg_speed) THEN "recompute"
    ELSE "hold"

\* faulty variant: the hold branch takes the raw bearing instead of keeping the heading
HeadingNoHold(branch, plat, plon, fixes, lat, lon, old) ==
    CASE branch = "bootstrap" ->
            Some(haversine_heading(Get(plat), Get(plon), lat, lon))
      [] branch = "recompute" ->
            Some(haversine_heading(AvgLat(fixes), AvgLon(fixes), lat, lon))
      [] branch = "hold" ->
            Some(haversine_heading(Get(plat), Get(plon), lat, lon))
      [] OTHER -> old

\* faulty variant: the recompute averages the window as it was before this fix
HeadingStaleWindow(branch, plat, plon, fixes, lat, lon, old) ==
    CASE branch = "bootstrap" ->
            Some(haversine_heading(Get(plat), Get(plon), lat, lon))
      [] branch = "recompute" ->
            LET before == SubSeq(fixes, 1, Len(fixes) - 1)
            IN  Some(haversine_heading(AvgLat(before), AvgLon(before), lat, lon))
      [] OTHER -> old

\* faulty variant: last_valid_heading starts at 0 instead of None
HeadingZeroInit(branch, plat, plon, fixes, lat, lon, old) ==
    CASE branch = "bootstrap" ->
            Some(haversine_heading(Get(plat), Get(plon), lat, lon))
      [] branch = "recompute" ->
            Some(haversine_heading(AvgLat(fixes), AvgLon(fixes), lat, lon))
      [] OTHER -> IF old = None THEN Some(0) ELSE old

\* faulty variant: the hold branch forgets the heading
HeadingDropOnHold(branch, plat, plon, fixes, lat, lon, old) ==
    CASE branch = "bootstrap" ->
            Some(haversine_heading(Get(plat), Get(plon), lat, lon))
      [] branch = "recompute" ->
            Some(haversine_heading(AvgLat(fixes), AvgLon(fixes), lat, lon))
      [] branch = "hold" -> None
      [] OTHER -> old

\* lines 64, 71: last_valid_heading after the fix
Heading(branch, plat, plon, fixes, lat, lon, old) ==
    CASE branch = "bootstrap" ->
            Some(haversine_heading(Get(plat), Get(plon), lat, lon))
      [] branch = "recompute" ->
            Some(haversine_heading(AvgLat(fixes), AvgLon(fixes), lat, lon))
      [] OTHER -> old

\* faulty variant: the fix that establishes the first heading emits no sample
EmitsAfterBootstrap(branch, heading, reported) ==
    branch \notin {"first", "bootstrap"} /\ heading # None /\ reported # None

\* line 77, inside the block of line 61
Emits(branch, heading, reported) ==
    branch # "first" /\ heading # None /\ reported # None

\* faulty variant: lines 85-86 indented into the block of line 77
RememberIfEmitted(emit, new, old) == IF emit THEN Some(new) ELSE old

\* lines 85-86 run for every valid fix, whatever line 61 and line 77 decided
Remember(emit, new, old) == Some(new)

VARIABLES
    pc,                       \* "test" (line 37), "read" (line 38), "returned", "raised"
    clock,                    \* time.time()
    start_time,
    prev_lat, prev_lon,
    last_valid_heading,
    last_speed,
    speed_buffer,
    previous_fixes,
    first_heading_calculated,
    calculated_headings, reported_headings, timestamps,
    fixlog,                   \* history: every valid fix processed, in order
    rejected,                 \* history: whether the message read last was rejected
    exhausted,                \* ser: None while the Fix Source still sends, the time
                              \* at which it stopped sending afterwards
    call, ret                 \* a single call of haversine_heading and its result

estimator == << prev_lat, prev_lon, last_valid_heading, last_speed, speed_buffer,
                previous_fixes, first_heading_calculated >>
outputs == << calculated_headings, reported_headings, timestamps >>
calls == << call, ret >>
vars == << pc, clock, start_time, estimator, outputs, fixlog, rejected, exhausted,
          calls >>

test_duration == MaxTime

Init ==
    /\ pc = "test"
    /\ clock = 0
    /\ start_time = 0
    /\ prev_lat = None /\ prev_lon = None
    /\ last_valid_heading = None
    /\ last_speed = None
    /\ speed_buffer = <<>>
    /\ previous_fixes = <<>>
    /\ first_heading_calculated = FALSE
    /\ calculated_headings = <<>> /\ reported_headings = <<>> /\ timestamps = <<>>
    /\ fixlog = <<>>
    /\ rejected = FALSE
    /\ exhausted = None
    /\ call = None /\ ret = None

\* the wall clock advances while the function runs
Tick ==
    /\ pc \in {"test", "read"}
    /\ clock < MaxTime
    /\ clock' = clock + 1
    /\ UNCHANGED << pc, start_time, estimator, outputs, fixlog, rejected, exhausted, calls >>

\* line 37 (and line 91 when the budget is spent)
LoopTest ==
    /\ pc = "test"
    /\ pc' = IF (clock - start_time) < test_duration THEN "read" ELSE "returned"
    /\ UNCHANGED << clock, start_time, estimator, outputs, fixlog, rejected, exhausted, calls >>

\* faulty variant: a skipped line goes back to readline, not to the test of line 37
SkipLineNoTest(m) ==
    /\ pc = "read"
    /\ m.kind = "other"
    /\ pc' = "read"
    /\ rejected' = TRUE
    /\ UNCHANGED << clock, start_time, estimator, outputs, fixlog, exhausted, calls >>

\* line 39 false: not an RMC sentence
SkipLine(m) ==
    /\ pc = "read"
    /\ m.kind = "other"
    /\ pc' = "test"
    /\ rejected' = TRUE
    /\ UNCHANGED << clock, start_time, estimator, outputs, fixlog, exhausted, calls >>

\* lines 41, 88-89: pynmea2.parse raises ParseError
ParseFail(m) ==
    /\ pc = "read"
    /\ m.kind = "garbled"
    /\ pc' = "test"
    /\ rejected' = TRUE
    /\ UNCHANGED << clock, start_time, estimator, outputs, fixlog, exhausted, calls >>

\* faulty variant: the status is tested after lines 52 and 59 have fed the buffers
InvalidStatusLate(m) ==
    /\ pc = "read"
    /\ m.kind = "rmc" /\ m.status # "A"
    /\ pc' = "test"
    /\ rejected' = TRUE
    /\ speed_buffer' = DequeAppend(speed_buffer, SpeedMs(m))
    /\ previous_fixes' = DequeAppend(previous_fixes, << latitude(m), longitude(m) >>)
    /\ UNCHANGED << clock, start_time, prev_lat, prev_lon, last_valid_heading,
                    last_speed, first_heading_calculated, outputs, fixlog, exhausted, calls >>

\* lines 42-43
InvalidStatus(m) ==
    /\ pc = "read"
    /\ m.kind = "rmc" /\ m.status # "A"
    /\ pc' = "test"
    /\ rejected' = TRUE
    /\ UNCHANGED << clock, start_time, estimator, outputs, fixlog, exhausted, calls >>

\* lines 47-48 raise ValueError / TypeError, which line 88 does not catch
FieldError(m) ==
    /\ pc = "read"
    /\ m.kind = "rmc" /\ m.status = "A"
    /\ CourseRaises(m) \/ SpeedRaises(m)
    /\ pc' = "raised"
    /\ UNCHANGED << clock, start_time, estimator, outputs, fixlog, rejected, exhausted, calls >>

\* faulty variant: line 79 moved out of the block of line 77
ProcessFixLooseAppend(m) ==
    /\ pc = "read"
    /\ m.kind = "rmc" /\ m.status = "A"
    /\ ~CourseRaises(m) /\ ~SpeedRaises(m)
    /\ LET lat == latitude(m)
           lon == longitude(m)
           reported_heading == ReportedHeading(m)
           speed_m_s == SpeedMs(m)
           timestamp == clock - start_time
           buf == DequeAppend(speed_buffer, speed_m_s)
           avg_speed == AvgSpeed(buf)
           speed_diff == SpeedDiff(speed_m_s, last_speed)
           fixes == DequeAppend(previous_fixes, <<lat, lon>>)
           branch == Branch(prev_lat, prev_lon, first_heading_calculated,
                            speed_diff, avg_speed)
           heading == Heading(branch, prev_lat, prev_lon, fixes, lat, lon,
                              last_valid_heading)
           emit == Emits(branch, heading, reported_heading)
       IN  /\ speed_buffer' = buf
           /\ previous_fixes' = fixes
           /\ last_valid_heading' = heading
           /\ first_heading_calculated' =
                  (first_heading_calculated \/ branch = "bootstrap")
           /\ calculated_headings' =
                  IF emit THEN Append(calculated_headings, Radians(Get(heading)))
                  ELSE calculated_headings
           /\ reported_headings' =
                  IF reported_heading # None
                  THEN Append(reported_headings, Radians(Get(reported_heading)))
                  ELSE reported_headings
           /\ timestamps' =
                  IF emit THEN Append(timestamps, timestamp) ELSE timestamps
           /\ prev_lat' = Remember(emit, lat, prev_lat)
           /\ prev_lon' = Remember(emit, lon, prev_lon)
           /\ last_speed' = Remember(emit, speed_m_s, last_speed)
           /\ fixlog' = Append(fixlog,
                  [lat |-> lat, lon |-> lon, speed |-> speed_m_s,
                   reported |-> reported_heading, t |-> timestamp,
                   speed_diff |-> speed_diff, avg_speed |-> avg_speed,
                   branch |-> branch, heading |-> heading, emitted |-> emit])
    /\ pc' = "test"
    /\ rejected' = FALSE
    /\ UNCHANGED << clock, start_time, exhausted, calls >>

\* lines 45-86: a valid fix
ProcessFix(m) ==
    /\ pc = "read"
    /\ m.kind = "rmc" /\ m.status = "A"
    /\ ~CourseRaises(m) /\ ~SpeedRaises(m)
    /\ LET lat == latitude(m)
           lon == longitude(m)
           reported_heading == ReportedHeading(m)
           speed_m_s == SpeedMs(m)
           timestamp == clock - start_time
           buf == DequeAppend(speed_buffer, speed_m_s)
           avg_speed == AvgSpeed(buf)
           speed_diff == SpeedDiff(speed_m_s, last_speed)
           fixes == DequeAppend(previous_fixes, <<lat, lon>>)
           branch == Branch(prev_lat, prev_lon, first_heading_calculated,
                            speed_diff, avg_speed)
           heading == Heading(branch, prev_lat, prev_lon, fixes, lat, lon,
                              last_valid_heading)
           emit == Emits(branch, heading, reported_heading)
       IN  /\ speed_buffer' = buf
           /\ previous_fixes' = fixes
           /\ last_valid_heading' = heading
           /\ first_heading_calculated' =
                  (first_heading_calculated \/ branch = "bootstrap")
           /\ calculated_headings' =
                  IF emit THEN Append(calculated_headings, Radians(Get(heading)))
                  ELSE calculated_headings
           /\ reported_headings' =
                  IF emit THEN Append(reported_headings, Radians(Get(reported_heading)))
                  ELSE reported_headings
           /\ timestamps' =
                  IF emit THEN Append(timestamps, timestamp) ELSE timestamps
           /\ prev_lat' = Remember(emit, lat, prev_lat)
           /\ prev_lon' = Remember(emit, lon, prev_lon)
           /\ last_speed' = Remember(emit, speed_m_s, last_speed)
           /\ fixlog' = Append(fixlog,
                  [lat |-> lat, lon |-> lon, speed |-> speed_m_s,
                   reported |-> reported_heading, t |-> timestamp,
                   speed_diff |-> speed_diff, avg_speed |-> avg_speed,
                   branch |-> branch, heading |-> heading, emitted |-> emit])
    /\ pc' = "test"
    /\ rejected' = FALSE
    /\ UNCHANGED << clock, start_time, exhausted, calls >>

Next ==
    \/ Tick
    \/ LoopTest
    \/ \E m \in OtherMessages : SkipLine(m)
    \/ \E m \in OtherMessages : ParseFail(m)
    \/ \E m \in OtherMessages : InvalidStatus(m)
    \/ \E m \in MalformedMessages : FieldError(m)
    \/ \E m \in ValidMessages : Len(fixlog) < MaxFix /\ ProcessFix(m)

Spec == Init /\ [][Next]_vars

\* A burst of up to MaxRun valid fixes handled within one reading of the clock
NextLong ==
    \/ LoopTest
    \/ \E m \in OtherMessages : SkipLine(m)
    \/ \E m \in OtherMessages : ParseFail(m)
    \/ \E m \in OtherMessages : InvalidStatus(m)
    \/ \E m \in LongMessages : Len(fixlog) < MaxRun /\ ProcessFix(m)

SpecLong == Init /\ [][NextLong]_vars

\* Fixes at the edge of the motion gate: speeds 0, exactly 0.2 m/s and 1.0 knot
\* (0.514 m/s), at positions (0,1), (1,1) and (0,2) degrees.
GateMessages ==
    { Rmc("A", <<0, 100>>, GateKnots, Num(88)),
      Rmc("A", <<100, 100>>, GateKnots, Num(89)),
      Rmc("A", <<0, 200>>, Num(0), Num(88)),
      Rmc("A", <<100, 100>>, Num(10), Empty) }

\* A burst of up to MaxGate such fixes handled within one reading of the clock
NextGate ==
    \/ LoopTest
    \/ \E m \in OtherMessages : SkipLine(m)
    \/ \E m \in OtherMessages : ParseFail(m)
    \/ \E m \in OtherMessages : InvalidStatus(m)
    \/ \E m \in GateMessages : Len(fixlog) < MaxGate /\ ProcessFix(m)

SpecGate == Init /\ [][NextGate]_vars

\* the Fix Source stops sending: from now on readline times out with an empty line
Exhaust ==
    /\ pc \in {"test", "read"}
    /\ exhausted = None
    /\ exhausted' = Some(clock)
    /\ UNCHANGED << pc, clock, start_time, estimator, outputs, fixlog, rejected, calls >>

\* line 38 on a timeout: an empty line, which line 39 skips
EmptyLine == [kind |-> "other"]

\* lines 38-89: one pass through the loop body, whatever readline returned
ReadLive ==
    \/ SkipLine(EmptyLine)
    \/ \E m \in OtherMessages : exhausted = None /\ ParseFail(m)
    \/ \E m \in OtherMessages : exhausted = None /\ InvalidStatus(m)
    \/ \E m \in LongMessages :
           exhausted = None /\ Len(fixlog) < MaxLive /\ ProcessFix(m)

\* A session in which time advances, every readline returns and the Fix Source may
\* stop sending at any moment
NextLive ==
    \/ Tick
    \/ LoopTest
    \/ Exhaust
    \/ ReadLive

SpecLive ==
    /\ Init /\ [][NextLive]_vars
    /\ WF_vars(Tick) /\ WF_vars(LoopTest) /\ WF_vars(ReadLive)

(***************************************************************************)
(* haversine_heading on its own: one call on points of a grid, or line 23  *)
(* alone on an atan2 result.                                               *)
(***************************************************************************)
GridSpan == 2
Tiny == 8

\* latitudes every 30 degrees, longitudes every 60 degrees, each also one
\* arc-minute to either side
Near == { -1, 0, 1 }
Lats == { k * 1800 : k \in -GridSpan..GridSpan }
Lons == { k * 3600 + d : k \in -GridSpan..GridSpan, d \in Near }

\* what math.degrees(math.atan2(x, y)) can be: whole degrees of [-180, 180]
\* and the smallest headings either side of 0
AtanDegrees == { k * 1000 : k \in -180..180 } \cup (-Tiny..Tiny)

InitBearing == Init

CallBearing ==
    /\ ret = None
    /\ \E lat1 \in Lats, lon1 \in Lons, lat2 \in Lats, lon2 \in Lons :
          /\ call' = << "haversine_heading", << lat1, lon1, lat2, lon2 >> >>
          /\ ret' = Some(haversine_heading(lat1, lon1, lat2, lon2))
    /\ UNCHANGED << pc, clock, start_time, estimator, outputs, fixlog, rejected, exhausted >>

CallNormalize ==
    /\ ret = None
    /\ \E h \in AtanDegrees :
          /\ call' = << "normalize", << h >> >>
          /\ ret' = Some(Normalize(h))
    /\ UNCHANGED << pc, clock, start_time, estimator, outputs, fixlog, rejected, exhausted >>

NextBearing == CallBearing \/ CallNormalize

SpecBearing == InitBearing /\ [][NextBearing]_vars

(***************************************************************************)
(* Properties.                                                             *)
(***************************************************************************)
NFix == Len(fixlog)
Min(a, b) == IF a <= b THEN a ELSE b
LastFix == fixlog[NFix]
Bearing(f, g) == haversine_heading(f.lat, f.lon, g.lat, g.lon)

\* 0.1 kn, the wire speed nearest 0.05 m/s
LowSpeed == 1 * KnotsToMs * SpeedScale

\* the three fixes of the end-to-end scenario have been processed, and no other
ScenarioDone ==
    /\ NFix = 3
    /\ fixlog[1].lat = 0 /\ fixlog[1].lon = 0 /\ fixlog[1].speed = 0
    /\ fixlog[1].reported = None /\ fixlog[1].t = 0
    /\ fixlog[2].lat = 0 /\ fixlog[2].lon = 60 /\ fixlog[2].speed = LowSpeed
    /\ fixlog[2].reported = Some(88000) /\ fixlog[2].t = 1
    /\ fixlog[3].lat = 0 /\ fixlog[3].lon = 120 /\ fixlog[3].speed = LowSpeed
    /\ fixlog[3].reported = Some(89000) /\ fixlog[3].t = 2

ScenarioHeading == Radians(haversine_heading(0, 0, 0, 60))

\* C1, as claimed: the scenario emits exactly one sample, the one for t=2, carrying
\* bearing((0,0)->(0,1)).
C1_Original ==
    ScenarioDone =>
        /\ timestamps = << 2 >>
        /\ calculated_headings = << ScenarioHeading >>
        /\ reported_headings = << Radians(89000) >>

\* C1, amended: the scenario emits exactly two samples, for t=1 (the bootstrap fix,
\* whose reported heading 88 is present) and for t=2, none for t=0; both carry
\* bearing((0,0)->(0,1)), the motion gate staying closed at t=2.
C1_Scenario ==
    ScenarioDone =>
        /\ timestamps = << 1, 2 >>
        /\ calculated_headings = << ScenarioHeading, ScenarioHeading >>
        /\ reported_headings = << Radians(88000), Radians(89000) >>
        /\ last_valid_heading = Some(haversine_heading(0, 0, 0, 60))

C1_Witness == ScenarioDone /\ pc = "returned"

\* the bootstrap heading in radians: bearing(raw fix 1 -> raw fix 2)
BootstrapHeading == Radians(Bearing(fixlog[1], fixlog[2]))

\* the fix that emitted the first sample
RECURSIVE FirstEmitted(_)
FirstEmitted(i) ==
    IF i > NFix THEN 0 ELSE IF fixlog[i].emitted THEN i ELSE FirstEmitted(i + 1)

\* fix i kept the motion gate closed: speed_diff <= 0.2 and avg_speed <= 0.2
GateClosedAt(i) ==
    fixlog[i].speed_diff <= Threshold /\ fixlog[i].avg_speed <= Threshold

\* C2, as claimed: the first emitted sample always carries the bootstrap heading.
C2_Original ==
    calculated_headings # << >> => calculated_headings[1] = BootstrapHeading

\* the positions the history window holds once fix j has been appended
WindowAt(j) ==
    LET lo == Max(1, j - (maxlen - 1))
    IN  [i \in 1..(j - lo + 1) |-> << fixlog[lo + i - 1].lat, fixlog[lo + i - 1].lon >>]

\* the heading a smoothed recompute at fix j gives
SmoothedAt(j) ==
    haversine_heading(AvgLat(WindowAt(j)), AvgLon(WindowAt(j)),
                      fixlog[j].lat, fixlog[j].lon)

\* C2, amended: the first emitted sample carries the bootstrap heading when it is
\* emitted on the second fix, or on a later fix with the motion gate closed at every
\* fix from the third up to it; otherwise it carries the heading of the latest
\* smoothed-window recompute.
C2_FirstSample ==
    calculated_headings # << >> =>
        LET k == FirstEmitted(1)
        IN  /\ k >= 2
            /\ (\A j \in 3..k : GateClosedAt(j)) =>
                   calculated_headings[1] = BootstrapHeading
            /\ \A j \in 3..k :
                   (~GateClosedAt(j) /\ \A i \in (j + 1)..k : GateClosedAt(i)) =>
                       calculated_headings[1] = Radians(SmoothedAt(j))

\* the first sample comes late, with the gate closed in between, and the smoothed
\* window would have given another heading
C2_Witness ==
    /\ calculated_headings # << >>
    /\ FirstEmitted(1) = 3
    /\ GateClosedAt(3)
    /\ SmoothedAt(3) # Bearing(fixlog[1], fixlog[2])

\* the fixes after the first that carry a reported heading
Reporting ==
    SelectSeq(IF fixlog = << >> THEN << >> ELSE Tail(fixlog),
              LAMBDA f : f.reported # None)

\* C3: after the first fix, a fix emits a sample if and only if its reported heading
\* is non-null: the three lists hold exactly the samples of the fixes with a reported
\* heading; every such fix, reporting or not, has a heading computed or held, and
\* previous position and last speed are those of the latest fix.
C3_EmitIffReported ==
    /\ timestamps = [i \in 1..Len(Reporting) |-> Reporting[i].t]
    /\ reported_headings =
           [i \in 1..Len(Reporting) |-> Radians(Get(Reporting[i].reported))]
    /\ calculated_headings =
           [i \in 1..Len(Reporting) |-> Radians(Get(Reporting[i].heading))]
    /\ \A i \in 2..NFix : fixlog[i].heading # None
    /\ NFix >= 1 =>
           /\ prev_lat = Some(LastFix.lat) /\ prev_lon = Some(LastFix.lon)
           /\ last_speed = Some(LastFix.speed)
           /\ last_valid_heading = LastFix.heading

\* a third fix without reported heading recomputed the heading, moved the previous
\* position and appended nothing
C3_Witness ==
    /\ NFix = 3
    /\ fixlog[3].reported = None /\ fixlog[2].reported # None
    /\ fixlog[3].branch = "recompute"
    /\ last_valid_heading # fixlog[2].heading
    /\ prev_lon # Some(fixlog[2].lon)
    /\ Len(timestamps) = 1

\* C4: the first valid fix emits nothing, whatever its speed and reported heading: it
\* records previous position and last speed and feeds the buffers, leaves
\* last_valid_heading unset and first_heading_calculated false; and no sample exists
\* while previous position is unset.
C4_FirstFixSilent ==
    /\ NFix = 1 =>
           /\ timestamps = << >> /\ calculated_headings = << >>
           /\ reported_headings = << >>
           /\ last_valid_heading = None
           /\ ~first_heading_calculated
           /\ prev_lat = Some(fixlog[1].lat) /\ prev_lon = Some(fixlog[1].lon)
           /\ last_speed = Some(fixlog[1].speed)
           /\ speed_buffer = << fixlog[1].speed >>
           /\ previous_fixes = << << fixlog[1].lat, fixlog[1].lon >> >>
    /\ NFix >= 1 => ~fixlog[1].emitted /\ fixlog[1].heading = None
    /\ (prev_lat = None \/ prev_lon = None) =>
           /\ timestamps = << >> /\ calculated_headings = << >>
           /\ reported_headings = << >>

\* the first fix moved fast and carried a reported heading
C4_Witness ==
    /\ NFix = 1
    /\ fixlog[1].speed > Threshold
    /\ fixlog[1].reported # None

\* C5: on the second valid fix last_valid_heading becomes
\* bearing(raw fix 1 -> raw fix 2), whatever the speeds.
C5_Bootstrap ==
    NFix >= 2 =>
        /\ fixlog[2].heading = Some(Bearing(fixlog[1], fixlog[2]))
        /\ fixlog[2].branch = "bootstrap"
        /\ NFix = 2 => last_valid_heading = Some(Bearing(fixlog[1], fixlog[2]))

\* the bootstrap fired with the motion gate closed: both speeds zero
C5_Witness ==
    /\ NFix = 2
    /\ fixlog[1].speed = 0 /\ fixlog[2].speed = 0
    /\ fixlog[2].avg_speed = 0 /\ fixlog[2].speed_diff = 0
    /\ last_valid_heading # None

\* C6, as claimed: after the bootstrap, every fix at the constant low speed with
\* speed delta 0 leaves last_valid_heading unchanged, whatever the buffer still holds.
C6_Original ==
    \A i \in 3..NFix :
        (fixlog[i].speed = LowSpeed /\ fixlog[i].speed_diff = 0) =>
            fixlog[i].heading = fixlog[i - 1].heading

\* C6, amended: after the bootstrap, every fix at the constant low speed with speed
\* delta 0 leaves last_valid_heading unchanged provided the mean of the speed buffer,
\* which still holds up to four earlier speeds, is not above 0.2 m/s; a faster
\* earlier fix still in the buffer can lift the mean above 0.2 m/s, and then the
\* heading is recomputed.
C6_HoldAtLowSpeed ==
    \A i \in 3..NFix :
        (fixlog[i].speed = LowSpeed /\ fixlog[i].speed_diff = 0) =>
            /\ fixlog[i].avg_speed <= Threshold =>
                   /\ fixlog[i].heading = fixlog[i - 1].heading
                   /\ fixlog[i].branch = "hold"
            /\ fixlog[i].avg_speed > Threshold =>
                   /\ fixlog[i].heading = Some(SmoothedAt(i))
                   /\ fixlog[i].branch = "recompute"

\* five fixes in a row at the low speed after a fast first fix: the last three are
\* held while the position moves, the fast speed still in the buffer for two of them
C6_Witness ==
    /\ NFix = 6
    /\ fixlog[1].speed > Threshold
    /\ \A i \in 2..6 : fixlog[i].speed = LowSpeed
    /\ \A i \in 4..6 : fixlog[i].branch = "hold" /\ fixlog[i].lon # fixlog[i - 1].lon
    /\ last_valid_heading = fixlog[3].heading
    /\ last_valid_heading # Some(SmoothedAt(6))

\* C7: every emitted sample has a calculated heading, last_valid_heading is set
\* before the first sample is emitted, and from the second valid fix onward it is
\* never None again.
C7_HeadingNeverNull ==
    /\ \A i \in 1..NFix : fixlog[i].emitted => fixlog[i].heading # None
    /\ timestamps # << >> => last_valid_heading # None
    /\ \A i \in 2..NFix : fixlog[i].heading # None
    /\ NFix >= 2 => last_valid_heading # None /\ first_heading_calculated
    /\ last_valid_heading # None <=> first_heading_calculated

\* the heading was held on a third fix, after a bootstrap fix that emitted nothing
C7_Witness ==
    /\ NFix = 3
    /\ fixlog[3].branch = "hold"
    /\ ~fixlog[2].emitted /\ fixlog[3].emitted
    /\ last_valid_heading # None

\* C8: after n valid fixes the position history and the speed history hold exactly
\* the min(n, 5) latest entries in arrival order; after 7 fixes the averages are the
\* means of fixes 3..7.
C8_Window ==
    LET n == NFix
        k == Min(n, maxlen)
    IN  /\ Len(speed_buffer) = k /\ Len(previous_fixes) = k
        /\ k <= maxlen
        /\ \A j \in 1..k :
               /\ speed_buffer[j] = fixlog[n - k + j].speed
               /\ previous_fixes[j] = << fixlog[n - k + j].lat, fixlog[n - k + j].lon >>
        /\ n = 7 =>
               /\ AvgLat(previous_fixes) =
                      Sum([j \in 1..5 |-> fixlog[j + 2].lat]) \div 5
               /\ AvgLon(previous_fixes) =
                      Sum([j \in 1..5 |-> fixlog[j + 2].lon]) \div 5
               /\ AvgSpeed(speed_buffer) =
                      Sum([j \in 1..5 |-> fixlog[j + 2].speed]) \div 5

\* seven fixes, the two evicted ones unlike the five kept: the averages differ from
\* the means over all seven
C8_Witness ==
    /\ NFix = 7
    /\ 7 * Sum([j \in 1..5 |-> previous_fixes[j][1]])
           # 5 * Sum([j \in 1..7 |-> fixlog[j].lat])
    /\ 7 * (Sum(speed_buffer) \div SpeedScale)
           # 5 * (Sum([j \in 1..7 |-> fixlog[j].speed]) \div SpeedScale)

\* C11: from the third valid fix onward the heading is recomputed if and only if
\* speed_diff > 0.2 or avg_speed > 0.2, both strict; with speed_diff <= 0.2 and
\* avg_speed <= 0.2, either being exactly 0.2 included, the fix leaves
\* last_valid_heading unchanged.
C11_GateStrict ==
    /\ \A i \in 3..NFix :
           LET open == fixlog[i].speed_diff > Threshold \/ fixlog[i].avg_speed > Threshold
           IN  /\ open <=> fixlog[i].branch = "recompute"
               /\ ~open <=> fixlog[i].branch = "hold"
               /\ open => fixlog[i].heading = Some(SmoothedAt(i))
               /\ ~open => fixlog[i].heading = fixlog[i - 1].heading
    /\ NFix >= 3 => last_valid_heading = LastFix.heading

\* four fixes at exactly 0.2 m/s, then one at rest: the fourth has avg_speed exactly
\* 0.2 and the fifth speed_diff exactly 0.2; both hold the heading although the
\* smoothed window would give another
C11_Witness ==
    /\ NFix = 5
    /\ fixlog[4].avg_speed = Threshold /\ fixlog[4].speed_diff = 0
    /\ fixlog[5].speed_diff = Threshold /\ fixlog[5].avg_speed < Threshold
    /\ fixlog[4].branch = "hold" /\ fixlog[5].branch = "hold"
    /\ last_valid_heading = fixlog[3].heading
    /\ last_valid_heading # Some(SmoothedAt(4))
    /\ last_valid_heading # Some(SmoothedAt(5))

\* the speeds the speed buffer holds once fix j has been appended
SpeedsAt(j) ==
    LET lo == Max(1, j - (maxlen - 1))
    IN  [i \in 1..(j - lo + 1) |-> fixlog[lo + i - 1].speed]

\* the history window of fix j without fix j's own position
PrecedingAt(j) == SubSeq(WindowAt(j), 1, Len(WindowAt(j)) - 1)

\* C12: when the motion gate is open, the new heading is the bearing from the mean of
\* the history window to the current position, the window holding the current fix's
\* own position and up to 4 preceding ones; avg_speed is the mean of the speed buffer,
\* the current fix's speed included.
C12_SmoothedRecompute ==
    /\ \A i \in 3..NFix :
           fixlog[i].branch = "recompute" =>
               LET w == WindowAt(i)
               IN  /\ Len(w) = Min(i, maxlen)
                   /\ w[Len(w)] = << fixlog[i].lat, fixlog[i].lon >>
                   /\ fixlog[i].heading =
                          Some(haversine_heading(Sum([k \in 1..Len(w) |-> w[k][1]]) \div Len(w),
                                                 Sum([k \in 1..Len(w) |-> w[k][2]]) \div Len(w),
                                                 fixlog[i].lat, fixlog[i].lon))
    /\ \A i \in 1..NFix :
           /\ Len(SpeedsAt(i)) = Min(i, maxlen)
           /\ fixlog[i].avg_speed = Sum(SpeedsAt(i)) \div Len(SpeedsAt(i))
    /\ NFix >= 1 => previous_fixes = WindowAt(NFix) /\ speed_buffer = SpeedsAt(NFix)

\* a sixth fix recomputed the heading from a full window: the result is neither the
\* bearing from the mean of the four preceding positions nor the raw bearing from the
\* fifth fix
C12_Witness ==
    /\ NFix = 6
    /\ fixlog[6].branch = "recompute"
    /\ last_valid_heading = Some(SmoothedAt(6))
    /\ last_valid_heading #
           Some(haversine_heading(AvgLat(PrecedingAt(6)), AvgLon(PrecedingAt(6)),
                                  fixlog[6].lat, fixlog[6].lon))
    /\ last_valid_heading # Some(Bearing(fixlog[5], fixlog[6]))
    /\ fixlog[6].avg_speed # AvgSpeed(SubSeq(SpeedsAt(6), 1, 4))

\* C13: speed_diff is 0 on the first valid fix and afterwards the absolute difference
\* between the speed of the fix and the speed of the valid fix just before it; after
\* every valid fix, emitting or not, heading changed or not, previous position and
\* last speed are those of that fix.
C13_SpeedDiff ==
    /\ NFix >= 1 => fixlog[1].speed_diff = 0
    /\ \A i \in 2..NFix :
           /\ fixlog[i].speed_diff >= 0
           /\ \/ fixlog[i].speed_diff = fixlog[i].speed - fixlog[i - 1].speed
              \/ fixlog[i].speed_diff = fixlog[i - 1].speed - fixlog[i].speed
    /\ NFix = 0 => prev_lat = None /\ prev_lon = None /\ last_speed = None
    /\ NFix >= 1 =>
           /\ prev_lat = Some(fixlog[NFix].lat)
           /\ prev_lon = Some(fixlog[NFix].lon)
           /\ last_speed = Some(fixlog[NFix].speed)

\* a third fix slower than the second held the heading and emitted nothing, yet the
\* previous position moved to it and its speed_diff is positive
C13_Witness ==
    /\ NFix = 3
    /\ fixlog[3].branch = "hold" /\ ~fixlog[3].emitted
    /\ fixlog[3].speed < fixlog[2].speed
    /\ fixlog[3].speed_diff > 0
    /\ prev_lon = Some(fixlog[3].lon) /\ fixlog[3].lon # fixlog[2].lon
    /\ last_speed # Some(fixlog[2].speed)

\* the estimator is past its initial state
Tracking == first_heading_calculated

\* C14: the estimator leaves its initial state exactly once, on the second valid fix:
\* the bootstrap branch runs on the second valid fix and on no other,
\* first_heading_calculated turns true then and never turns false again, and previous
\* position, once set, is never unset.
C14_BootstrapOnce ==
    /\ [](/\ \A i \in 1..NFix : fixlog[i].branch = "bootstrap" <=> i = 2
          /\ Tracking <=> NFix >= 2
          /\ (prev_lat # None /\ prev_lon # None) <=> NFix >= 1)
    /\ [][/\ Tracking => Tracking'
          /\ Tracking' /\ ~Tracking => NFix = 1 /\ NFix' = 2
          /\ prev_lat # None => prev_lat' # None
          /\ prev_lon # None => prev_lon' # None]_vars

\* seven fixes: the bootstrap on the second, then recomputes and holds only
C14_Witness ==
    /\ NFix = 7
    /\ fixlog[2].branch = "bootstrap"
    /\ fixlog[3].branch = "recompute" /\ fixlog[7].branch = "hold"
    /\ Tracking
    /\ prev_lat # None /\ prev_lon # None

\* the fixes that emitted a sample
Emitted == SelectSeq(fixlog, LAMBDA f : f.emitted)

\* C15: a message that is not an RMC sentence, has a status other than 'A' or fails
\* to parse changes nothing in the estimator: the step that rejects it leaves the
\* speed buffer, the position history, previous position, last speed,
\* last_valid_heading, first_heading_calculated and the three output lists as they
\* were, and the estimator is at all times what the valid fixes alone made it.
C15_RejectedNoEffect ==
    /\ [][((rejected' /\ ~rejected) \/ (pc = "read" /\ pc' = "test" /\ fixlog' = fixlog)) =>
             /\ pc = "read" /\ pc' = "test" /\ fixlog' = fixlog
             /\ rejected'
             /\ speed_buffer' = speed_buffer /\ previous_fixes' = previous_fixes
             /\ prev_lat' = prev_lat /\ prev_lon' = prev_lon
             /\ last_speed' = last_speed
             /\ last_valid_heading' = last_valid_heading
             /\ first_heading_calculated' = first_heading_calculated
             /\ timestamps' = timestamps
             /\ calculated_headings' = calculated_headings
             /\ reported_headings' = reported_headings]_vars
    /\ [](NFix >= 1 =>
             /\ speed_buffer = SpeedsAt(NFix) /\ previous_fixes = WindowAt(NFix)
             /\ prev_lat = Some(LastFix.lat) /\ prev_lon = Some(LastFix.lon)
             /\ last_speed = Some(LastFix.speed)
             /\ last_valid_heading = LastFix.heading
             /\ Len(timestamps) = Len(Emitted))

\* a message has just been rejected after two valid fixes, the second of which
\* emitted a sample: the estimator is as those two fixes left it
C15_Witness ==
    /\ rejected /\ pc = "test"
    /\ NFix = 2
    /\ Tracking
    /\ Len(speed_buffer) = 2 /\ Len(previous_fixes) = 2
    /\ last_valid_heading = Some(Bearing(fixlog[1], fixlog[2]))
    /\ Len(timestamps) = 1

\* list b is list a, or list a with one entry appended
Extends(a, b) ==
    \/ b = a
    \/ Len(b) = Len(a) + 1 /\ SubSeq(b, 1, Len(a)) = a

\* C16: the three output lists always have the same length; a valid fix appends one
\* entry to each of them or nothing to any; entries once appended are never changed
\* or removed; and the timestamps are in non-decreasing order.
C16_OutputLists ==
    /\ [](/\ Len(timestamps) = Len(calculated_headings)
          /\ Len(timestamps) = Len(reported_headings)
          /\ Len(timestamps) = Len(Emitted)
          /\ \A i \in 1..Len(timestamps) : \A j \in i..Len(timestamps) :
                 timestamps[i] <= timestamps[j])
    /\ [][/\ Extends(timestamps, timestamps')
          /\ Extends(calculated_headings, calculated_headings')
          /\ Extends(reported_headings, reported_headings')
          /\ Len(timestamps') = Len(calculated_headings')
          /\ Len(timestamps') = Len(reported_headings')
          /\ timestamps' # timestamps => NFix' = NFix + 1]_vars

\* the session returned two samples taken at different times, with different
\* calculated and reported headings, after three valid fixes
C16_Witness ==
    /\ pc = "returned"
    /\ NFix = 3
    /\ Len(timestamps) = 2
    /\ timestamps[1] < timestamps[2]
    /\ calculated_headings[1] # calculated_headings[2]
    /\ reported_headings[1] # reported_headings[2]

\* C17: the session ends. With readline always returning and time advancing,
\* read_nmea_rmc leaves its loop and returns once test_duration has elapsed, and not
\* before, whatever valid, invalid-status, non-RMC and unparsable messages arrive;
\* it ends as well once the Fix Source has stopped sending, and having returned it
\* stays returned.
C17_SessionEnds ==
    /\ <>(pc = "returned")
    /\ [](exhausted # None => <>(pc = "returned"))
    /\ [](pc = "returned" => clock - start_time >= test_duration)
    /\ [][pc = "returned" => pc' = "returned"]_vars

\* the Fix Source stopped sending at time 0, after one valid fix; the loop went on
\* reading empty lines and returned when the budget was spent
C17_Witness ==
    /\ pc = "returned"
    /\ exhausted = Some(0)
    /\ clock - start_time = test_duration
    /\ NFix = 1 /\ rejected

\* C9, as claimed: no message makes an exception escape read_nmea_rmc.
C9_NoEscape == pc # "raised"

\* C10: haversine_heading returns a value in [0, 360), 360 itself excluded, and line 23
\* maps every atan2 result in [-180, 180] into [0, 360).
C10_Range ==
    ret # None => (0 <= Get(ret) /\ Get(ret) < FullTurn)

\* a tiny negative heading: the sum heading + 360 rounds to 360.0 and the result is 0
C10_Witness ==
    /\ ret = Some(0)
    /\ call[1] = "normalize"
    /\ call[2][1] < 0
====
